---- MODULE Spec2Model ----
(***************************************************************************)
(* The yondo video server: an HTTP facade around the yt-dlp tool.  The     *)
(* repository holds three revisions of the same server:                    *)
(*   index.js   streams the file, deletes it in the catch block and on     *)
(*              the read stream's 'end'                                    *)
(*   part_001   as index.js, with a per-request cleanup() guarded by       *)
(*              cleanupDone and per-request SIGTERM/SIGINT listeners       *)
(*   part_002   readiness flag, per-request tool check, file named after   *)
(*              Date.now(), answer is a base64 data URI                    *)
(* One server process runs one revision; rev is chosen in Init.  The model *)
(* follows the server process until it exits.                              *)
(***************************************************************************)
EXTENDS Integers, FiniteSets, Sequences, TLC

\* ---------------------------------------------------------------- bounds
\* Number of POST /download requests the model follows.
MaxReq == 2
\* Last value of the millisecond clock read by Date.now().
MaxClock == 1
\* Largest file size (0 is an empty file).
MaxSize == 1
\* Number of GET /health requests the model follows.
MaxHealth == 2

Req == 1..MaxReq
FileSizes == 0..MaxSize
Health == 1..MaxHealth

\* ------------------------------------------------------------- revisions
RevIndex == "index.js"
RevCleanup == "part_001"
RevBase64 == "part_002"
Revisions == {RevIndex, RevCleanup, RevBase64}

\* The url field of the request body: missing/empty, the literal 'version'
\* (part_002's version-check request), or a video URL.
NoUrl == ""
VersionUrl == "version"
VideoUrl == "https://example.com/video"

\* `code` of the 'exit' event when the process was killed by a signal.
NullCode == -1
ExitCodes == {0, 1, NullCode}

\* ------------------------------------------------------------ error messages
\* A message is the sequence of the texts it is put together from.
NoMessage == <<>>
\* What the process wrote to its stderr, and the command line it was run with.
Stderr == "<stderr>"
CommandLine == "<command>"
\* new Error('Invalid or inaccessible video URL')
ProbeErrorMessage == <<"Invalid or inaccessible video URL">>
CodeText(c) == IF c = 0 THEN "0" ELSE IF c = 1 THEN "1" ELSE "null"
\* new Error(`Process exited with code ${code}`)
ExitErrorMessage(c) == <<"Process exited with code ", CodeText(c)>>
\* new Error('Video file not found after download')
NotFoundMessage == <<"Video file not found after download">>
\* new Error('Downloaded file is empty')
EmptyFileMessage == <<"Downloaded file is empty">>
\* The message of an error raised by the operating system (spawn, stat,
\* readFile): a system call name and an errno text.
SystemErrorMessage == <<"<syscall errno>">>
\* The message of the error execAsync rejects with when the command exits
\* non-zero: 'Command failed: ' + cmd + '\n' + stderr.
ExecErrorMessage(cmd, stderr) == <<"Command failed: ", cmd, "\n", stderr>>
\* 'Video downloaded successfully'
SuccessMessage == <<"Video downloaded successfully">>

\* ------------------------------------------------------------ file system
NoPath == <<"null">>
\* crypto.randomBytes(16) names: 128 random bits, modelled as never
\* repeating (one name per drawing request).
RandomPath(r) == <<"rand", r>>
\* `video-${timestamp}.mp4`
TimestampPath(t) == <<"video", t>>
Paths == {RandomPath(r) : r \in Req} \cup {TimestampPath(t) : t \in 0..MaxClock}

NoFile == [exists |-> FALSE, owner |-> 0, size |-> 0]
File(o, s) == [exists |-> TRUE, owner |-> o, size |-> s]

VARIABLES
  rev,            \* the revision this server process runs
  server,         \* "starting", "listening", "closing", "exited"
  init,           \* position of initializeServer (part_002)
  isServerReady,  \* part_002's readiness flag
  now,            \* the millisecond clock
  sigterm,        \* SIGTERM has been delivered
  exitCode,       \* {} while running, {c} after process.exit(c)
  files,          \* the temp directory: path -> file
  rq,             \* per request: the handler's locals and its response
  hl,             \* per GET /health request: the handler's position and response
  lastCheck       \* result of initializeServer's latest checkYtDlp()

vars == <<rev, server, init, isServerReady, now, sigterm, exitCode, files, rq, hl,
          lastCheck>>

\* The url values a request is tried with.  'version' is special in part_002
\* only; elsewhere it is a URL like any other.
Urls == IF rev = RevBase64 THEN {NoUrl, VersionUrl, VideoUrl} ELSE {NoUrl, VideoUrl}

\* A request before it arrives.
NewRequest ==
  [pc |-> "idle", url |-> NoUrl, outputPath |-> NoPath,
   cleanupDone |-> FALSE, handlers |-> FALSE,
   job |-> "none", exit |-> {}, settled |-> 0,
   status |-> 0, headersSent |-> FALSE, headerWrites |-> 0, ended |-> FALSE,
   closed |-> FALSE,
   body |-> "none", bodyOwner |-> 0,
   delAttempts |-> 0, delFailed |-> FALSE, delOwner |-> 0,
   spawned |-> {}, seen |-> "none",
   observed |-> "none", probe |-> "none", check |-> "none", caption |-> "", error |-> NoMessage, text |-> NoMessage,
   contentLength |-> 0, sent |-> 0]

\* A GET /health request before it arrives.
NewHealth ==
  [pc |-> "idle", tool |-> "none", status |-> 0, ended |-> FALSE,
   unhandled |-> FALSE]

Init ==
  /\ rev \in Revisions
  /\ server = "starting"
  /\ init = IF rev = RevBase64 THEN "check1" ELSE "ready"
  /\ isServerReady = FALSE
  /\ now = 0
  /\ sigterm = FALSE
  /\ exitCode = {}
  /\ files = [p \in Paths |-> NoFile]
  /\ rq = [r \in Req |-> NewRequest]
  /\ hl = [h \in Health |-> NewHealth]
  /\ lastCheck = "none"

\* The server process is running (its handlers and callbacks can run).
Alive == server \in {"listening", "closing"}

Exists(p) == p # NoPath /\ files[p].exists

Set(r, q) == rq' = [rq EXCEPT ![r] = q]

\* process.exit(c)
Exit(c) == server' = "exited" /\ exitCode' = {c}

\* ---------------------------------------------------------------- startup
\* checkYtDlp of part_002: `which yt-dlp`, `--version` (run twice: once to see
\* that it executes, once for its output) and `--help` must all succeed; any
\* failure is caught and yields false.
CheckYtDlp(which, executes, version, help) == which /\ executes /\ version /\ help

\* InitCheck with `isServerReady = true` left out of the already-installed
\* branch.
InitCheckForgetful(which, executes, version, help) ==
  /\ server = "starting" /\ init = "check1"
  /\ IF CheckYtDlp(which, executes, version, help)
       THEN init' = "ready" /\ lastCheck' = "true"
       ELSE init' = "pip" /\ lastCheck' = "false"
  /\ UNCHANGED <<rev, server, isServerReady, now, sigterm, exitCode, files, rq, hl>>

\* initializeServer, first check: ready at once, or go on to install.
InitCheck(which, executes, version, help) ==
  /\ server = "starting" /\ init = "check1"
  /\ IF CheckYtDlp(which, executes, version, help)
       THEN init' = "ready" /\ isServerReady' = TRUE /\ lastCheck' = "true"
       ELSE init' = "pip" /\ UNCHANGED isServerReady /\ lastCheck' = "false"
  /\ UNCHANGED <<rev, server, now, sigterm, exitCode, files, rq, hl>>

\* `pip install --user yt-dlp`; on failure the curl download is tried.
PipInstall(ok) ==
  /\ server = "starting" /\ init = "pip"
  /\ init' = IF ok THEN "check2" ELSE "curl"
  /\ UNCHANGED <<rev, server, isServerReady, now, sigterm, exitCode, files, rq, hl, lastCheck>>

\* curl download, then chmod; a failure of either throws out of
\* initializeServer, and the .catch of the start-up chain exits with 1.
CurlInstall(curlOk, chmodOk) ==
  /\ server = "starting" /\ init = "curl"
  /\ IF curlOk /\ chmodOk
       THEN init' = "check2" /\ UNCHANGED <<server, exitCode>>
       ELSE init' = "failed" /\ Exit(1)
  /\ UNCHANGED <<rev, isServerReady, now, sigterm, files, rq, hl, lastCheck>>

\* VerifyInstall with the result of the second check not looked at.
VerifyInstallTrusting(which, executes, version, help) ==
  /\ server = "starting" /\ init = "check2"
  /\ lastCheck' = IF CheckYtDlp(which, executes, version, help) THEN "true" ELSE "false"
  /\ init' = "ready" /\ isServerReady' = TRUE
  /\ UNCHANGED <<rev, server, now, sigterm, exitCode, files, rq, hl>>

\* The check after an installation attempt.
VerifyInstall(which, executes, version, help) ==
  /\ server = "starting" /\ init = "check2"
  /\ IF CheckYtDlp(which, executes, version, help)
       THEN /\ init' = "ready" /\ isServerReady' = TRUE /\ lastCheck' = "true"
            /\ UNCHANGED <<server, exitCode>>
       ELSE /\ init' = "failed" /\ Exit(1) /\ lastCheck' = "false"
            /\ UNCHANGED isServerReady
  /\ UNCHANGED <<rev, now, sigterm, files, rq, hl>>

\* Listen without waiting for initializeServer: app.listen at module load.
ListenEarly(ok) ==
  /\ server = "starting"
  /\ IF ok THEN server' = "listening" /\ UNCHANGED exitCode ELSE Exit(1)
  /\ UNCHANGED <<rev, init, isServerReady, now, sigterm, files, rq, hl, lastCheck>>

\* app.listen: index.js and part_001 call it at module load, part_002 in the
\* .then of initializeServer.  A listen error ends the process.
Listen(ok) ==
  /\ server = "starting" /\ init = "ready"
  /\ IF ok THEN server' = "listening" /\ UNCHANGED exitCode ELSE Exit(1)
  /\ UNCHANGED <<rev, init, isServerReady, now, sigterm, files, rq, hl, lastCheck>>

\* The millisecond clock advances.  Only part_002 reads it (Date.now() when the
\* path is named), so it is followed while a request can still read it.  Only
\* the equality of two readings matters, so the clock moves on from a value
\* only once some request has read it.
Tick ==
  /\ Alive /\ now < MaxClock
  /\ rev = RevBase64 /\ \E r \in Req : rq[r].pc \in {"idle", "vcheck"}
  /\ \E r \in Req : rq[r].outputPath = TimestampPath(now)
  /\ now' = now + 1
  /\ UNCHANGED <<rev, server, init, isServerReady, sigterm, exitCode, files, rq, hl, lastCheck>>

\* ------------------------------------------------------ handler building blocks
\* res.status(st).json(...): headers and body are written and the response ends.
Respond(q, st) ==
  [q EXCEPT !.pc = "done", !.status = st, !.headersSent = TRUE,
            !.headerWrites = @ + 1, !.ended = TRUE, !.body = "json"]

\* The fixed text of a JSON body (its error field; the 503's message field).
Caption(q, c) == [q EXCEPT !.caption = c]

\* RespondError without the `if (!res.headersSent)` guard.
RespondErrorUnguarded(q) ==
  [Respond(Caption(q, "Server error"), 500) EXCEPT !.text = q.error]

\* The handler ends; the error response is sent unless headers already went out
\* (`if (!res.headersSent)`).  Its details field is the caught error's message
\* (text: the free text of the JSON body).
RespondError(q) ==
  IF q.headersSent THEN [q EXCEPT !.pc = "done"]
  ELSE [Respond(Caption(q, "Server error"), 500) EXCEPT !.text = q.error]

\* One run of the deletion code for the request's path: existsSync + unlinkSync,
\* or fs.unlink.  ok: the unlink system call succeeds.
Unlinked(q, ok) ==
  [q EXCEPT !.delAttempts = @ + 1,
            !.delFailed = @ \/ (Exists(q.outputPath) /\ ~ok),
            !.delOwner = IF Exists(q.outputPath) /\ ok
                           THEN files[q.outputPath].owner ELSE @]

\* The temp directory after unlinking p; an unlink error is logged only.
FilesAfterUnlink(p, ok) ==
  IF Exists(p) /\ ok THEN [files EXCEPT ![p] = NoFile] ELSE files

\* part_001's cleanup(): runs once per request (cleanupDone), deletes the
\* file if a path was chosen and the file exists.
Cleanup(q, ok) ==
  IF q.cleanupDone THEN q
  ELSE IF q.outputPath = NoPath THEN [q EXCEPT !.cleanupDone = TRUE]
  ELSE [Unlinked(q, ok) EXCEPT !.cleanupDone = TRUE]

CleanupFiles(q, ok) ==
  IF q.cleanupDone THEN files ELSE FilesAfterUnlink(q.outputPath, ok)

\* The catch block of index.js: delete the file if a path was chosen and the
\* file exists, then answer 500 unless headers were sent.
CatchIndex(q, ok) ==
  RespondError(IF q.outputPath # NoPath THEN Unlinked(q, ok) ELSE q)

CatchIndexFiles(q, ok) == FilesAfterUnlink(q.outputPath, ok)

\* The catch block of part_001: cleanup(), 500 unless headers were sent, then
\* the request's termination listeners are removed.
CatchCleanup(q, ok) ==
  [RespondError(Cleanup(q, ok)) EXCEPT !.handlers = FALSE]

\* The catch block of the streaming revisions.
Catch(q, ok) == IF rev = RevCleanup THEN CatchCleanup(q, ok) ELSE CatchIndex(q, ok)

CatchFiles(q, ok) ==
  IF rev = RevCleanup THEN CleanupFiles(q, ok) ELSE CatchIndexFiles(q, ok)

\* The download is started: exec(command) / execAsync(command).
SpawnDownload(q, p) ==
  [q EXCEPT !.pc = "download", !.outputPath = p, !.job = "running",
            !.spawned = @ \cup {"download"}]

\* `if (!url)`
UrlMissing(u) == u = NoUrl

\* throw / reject(e): the error the handler's catch block will see.
Throw(q, m) == [q EXCEPT !.error = m]

\* res.status(500).json({error: <fixed text>, details: m, ...})
RespondDetails(q, m) == [Respond(q, 500) EXCEPT !.text = m]

\* ------------------------------------------------------------ POST /download
\* ReceiveIndex with the url check left out: the probe is started for any url.
ReceiveIndexUnvalidated(q, u) ==
  [q EXCEPT !.url = u, !.pc = "probe", !.spawned = @ \cup {"probe"}]

\* The synchronous head of the handler, up to its first await or its return.
ReceiveIndex(q, u) ==
  IF UrlMissing(u) THEN Respond(Caption([q EXCEPT !.url = u], "URL is required"), 400)
  ELSE [q EXCEPT !.url = u, !.pc = "probe", !.spawned = @ \cup {"probe"}]

\* part_001 registers the request's SIGTERM/SIGINT listeners before it
\* looks at the url.
ReceiveCleanup(q, u) == ReceiveIndex([q EXCEPT !.handlers = TRUE], u)

\* part_002: 503 (after a tool check) while not ready, 400 without url, the
\* version check for the url 'version', else the per-request tool check.
ReceiveBase64(q, u) ==
  IF ~isServerReady
    THEN Respond(Caption([q EXCEPT !.url = u, !.observed = "false",
                                   !.spawned = @ \cup {"toolcheck"}],
                         "Server is still initializing"), 503)
  ELSE LET g == [q EXCEPT !.url = u, !.observed = "true"] IN
    IF UrlMissing(u) THEN Respond(Caption(g, "URL is required"), 400)
    ELSE IF u = VersionUrl
      THEN [g EXCEPT !.pc = "version", !.spawned = @ \cup {"version"}]
    ELSE [g EXCEPT !.pc = "vcheck", !.spawned = @ \cup {"toolcheck"}]

Receive(r, u) ==
  /\ server = "listening"
  /\ rq[r].pc = "idle"
  /\ \A o \in Req : o < r => rq[o].pc # "idle"
  /\ Set(r, CASE rev = RevIndex -> ReceiveIndex(rq[r], u)
              [] rev = RevCleanup -> ReceiveCleanup(rq[r], u)
              [] rev = RevBase64 -> ReceiveBase64(rq[r], u))
  /\ UNCHANGED <<rev, server, init, isServerReady, now, sigterm, exitCode, files, hl, lastCheck>>

\* ProbeDone with the probe's error ignored: the download is spawned whatever
\* the probe said.
ProbeDoneUnchecked(r, ok) ==
  /\ Alive /\ rev \in {RevIndex, RevCleanup}
  /\ rq[r].pc = "probe"
  /\ Set(r, SpawnDownload([rq[r] EXCEPT !.probe = IF ok THEN "ok" ELSE "failed"],
                          RandomPath(r)))
  /\ UNCHANGED <<rev, server, init, isServerReady, now, sigterm, exitCode, files, hl, lastCheck>>

\* The pre-flight probe `yt-dlp --no-download --get-title` returns (index.js,
\* part_001): on error the handler goes to its catch block with no path
\* chosen; otherwise the path is drawn and the download is spawned.
ProbeDone(r, ok) ==
  /\ Alive /\ rev \in {RevIndex, RevCleanup}
  /\ rq[r].pc = "probe"
  /\ Set(r, IF ok THEN SpawnDownload([rq[r] EXCEPT !.probe = "ok"], RandomPath(r))
            ELSE Catch(Throw([rq[r] EXCEPT !.probe = "failed"], ProbeErrorMessage), TRUE))
  /\ UNCHANGED <<rev, server, init, isServerReady, now, sigterm, exitCode, files, hl, lastCheck>>

\* part_002, url 'version': which + --version + --help; 200 JSON, or 500 with
\* the message of the exec error as details.
VersionCheck(r, ok) ==
  /\ Alive /\ rev = RevBase64
  /\ rq[r].pc = "version"
  /\ Set(r, IF ok THEN Respond(rq[r], 200)
            ELSE RespondDetails(Caption(rq[r], "Failed to verify yt-dlp"),
                                ExecErrorMessage("yt-dlp --version", Stderr)))
  /\ UNCHANGED <<rev, server, init, isServerReady, now, sigterm, exitCode, files, hl, lastCheck>>

\* ToolCheck with the return of the failure branch missing: the download is
\* spawned whatever the check said.
ToolCheckIgnored(r, ok) ==
  /\ Alive /\ rev = RevBase64
  /\ rq[r].pc = "vcheck"
  /\ Set(r, SpawnDownload([rq[r] EXCEPT !.check = IF ok THEN "ok" ELSE "failed"],
                          TimestampPath(now)))
  /\ UNCHANGED <<rev, server, init, isServerReady, now, sigterm, exitCode, files, hl, lastCheck>>

\* part_002: `yt-dlp --version` returns; on failure 500 with the message of
\* the exec error as details, otherwise the path is named after Date.now() and
\* the download is spawned.
ToolCheck(r, ok) ==
  /\ Alive /\ rev = RevBase64
  /\ rq[r].pc = "vcheck"
  /\ Set(r, IF ok THEN SpawnDownload([rq[r] EXCEPT !.check = "ok"], TimestampPath(now))
            ELSE RespondDetails(Caption([rq[r] EXCEPT !.check = "failed"],
                                        "yt-dlp is not working properly"),
                                ExecErrorMessage("yt-dlp --version", Stderr)))
  /\ UNCHANGED <<rev, server, init, isServerReady, now, sigterm, exitCode, files, hl, lastCheck>>

\* The downloader writes (or truncates, or rewrites) the file at its -o path.
DlWrite(r, s) ==
  /\ Alive
  /\ rq[r].job = "running"
  /\ files' = [files EXCEPT ![rq[r].outputPath] = File(r, s)]
  /\ UNCHANGED <<rev, server, init, isServerReady, now, sigterm, exitCode, rq, hl, lastCheck>>

\* `code !== 0`
ExitFailed(c) == c # 0

\* VerifyAndStream with the existsSync check left out: the 200 headers are
\* written whatever is at the path.
VerifyAndStreamUnchecked(q, ok) ==
  [q EXCEPT !.seen = IF ~Exists(q.outputPath) THEN "missing"
                     ELSE IF files[q.outputPath].size = 0 THEN "empty" ELSE "ok",
            !.contentLength = IF Exists(q.outputPath) THEN files[q.outputPath].size ELSE 0,
            !.status = 200, !.headersSent = TRUE, !.headerWrites = @ + 1,
            !.pc = "stream"]

\* VerifyAndStream with the Content-Length header left out of writeHead.
VerifyAndStreamNoLength(q, ok) ==
  IF ~Exists(q.outputPath)
    THEN Catch(Throw([q EXCEPT !.seen = "missing"], NotFoundMessage), ok)
    ELSE [q EXCEPT !.seen = IF files[q.outputPath].size = 0 THEN "empty" ELSE "ok",
                   !.status = 200, !.headersSent = TRUE, !.headerWrites = @ + 1,
                   !.pc = "stream"]

\* index.js and part_001 after the download promise resolved: existsSync, then
\* statSync and writeHead(200, Content-Length: stat.size), then the read
\* stream is opened.  seen records what the file looked like at this check.
VerifyAndStream(q, ok) ==
  IF ~Exists(q.outputPath)
    THEN Catch(Throw([q EXCEPT !.seen = "missing"], NotFoundMessage), ok)
    ELSE [q EXCEPT !.seen = IF files[q.outputPath].size = 0 THEN "empty" ELSE "ok",
                   !.contentLength = files[q.outputPath].size,
                   !.status = 200, !.headersSent = TRUE, !.headerWrites = @ + 1,
                   !.pc = "stream"]

\* The 'exit' listener of the streaming revisions and what the handler does
\* when the promise settles.
ExitStreaming(q, c, ok) ==
  IF ExitFailed(c) THEN Catch(Throw(q, ExitErrorMessage(c)), ok)
  ELSE VerifyAndStream(q, ok)

ExitStreamingFiles(q, c, ok) ==
  IF ExitFailed(c) THEN CatchFiles(q, ok) ELSE files

\* part_002: execAsync rejects on a non-zero (or null) code and the handler
\* answers 500 'Video download failed' with details: dlError.message and
\* command: command; otherwise it goes on to fs.stat.
ExitBase64(q, c) ==
  IF ExitFailed(c)
    THEN RespondDetails(Caption(q, "Video download failed"),
                        ExecErrorMessage(CommandLine, Stderr) \o <<CommandLine>>)
    ELSE [q EXCEPT !.pc = "stat"]

\* The downloader process exits with code c.
DlExit(r, c, ok) ==
  /\ Alive
  /\ rq[r].pc = "download" /\ rq[r].job = "running"
  /\ LET q == [rq[r] EXCEPT !.job = "exited", !.exit = {c}, !.settled = @ + 1] IN
       IF rev = RevBase64
         THEN Set(r, ExitBase64(q, c)) /\ UNCHANGED files
         ELSE Set(r, ExitStreaming(q, c, ok)) /\ files' = ExitStreamingFiles(q, c, ok)
  /\ UNCHANGED <<rev, server, init, isServerReady, now, sigterm, exitCode, hl, lastCheck>>

\* The process could not be spawned ('error' event; execAsync rejects).
DlError(r, ok) ==
  /\ Alive
  /\ rq[r].pc = "download" /\ rq[r].job = "running"
  /\ LET q == [rq[r] EXCEPT !.job = "errored", !.settled = @ + 1] IN
       IF rev = RevBase64
         THEN /\ Set(r, RespondDetails(Caption(q, "Video download failed"),
                                       SystemErrorMessage \o <<CommandLine>>))
              /\ UNCHANGED files
         ELSE /\ Set(r, Catch(Throw(q, SystemErrorMessage), ok))
              /\ files' = CatchFiles(q, ok)
  /\ UNCHANGED <<rev, server, init, isServerReady, now, sigterm, exitCode, hl, lastCheck>>

\* The download promise has been resolved or rejected: a later resolve() or
\* reject() has no effect.
PromiseSettled(q) == q.job # "running"

\* The 'exit' listener with resolve/reject acting every time they are called,
\* as plain callbacks would.
SettleExitAgain(q, c, ok) == [ExitStreaming(q, c, ok) EXCEPT !.settled = @ + 1]

\* The 'exit' listener of the streaming revisions calls reject(...) or
\* resolve(); the handler goes on only if the promise was still pending.
SettleExit(q, c, ok) ==
  IF PromiseSettled(q) THEN q
  ELSE [ExitStreaming(q, c, ok) EXCEPT !.settled = @ + 1]

SettleExitFiles(q, c, ok) ==
  IF PromiseSettled(q) THEN files ELSE ExitStreamingFiles(q, c, ok)

\* index.js, part_001: the 'exit' event fires after the 'error' event of the
\* same process (it may or may not, after a failed spawn).
DlLateExit(r, c, ok) ==
  /\ Alive /\ rev \in {RevIndex, RevCleanup}
  /\ rq[r].job = "errored" /\ rq[r].exit = {}
  /\ LET q == [rq[r] EXCEPT !.exit = {c}] IN
       /\ Set(r, SettleExit(q, c, ok))
       /\ files' = SettleExitFiles(q, c, ok)
  /\ UNCHANGED <<rev, server, init, isServerReady, now, sigterm, exitCode, hl, lastCheck>>

\* part_002: fs.stat of the path; a missing file and a size of 0 both answer
\* 500 'Failed to verify downloaded file'.
StatBase64(q) ==
  IF ~Exists(q.outputPath)
    THEN RespondDetails(Caption([q EXCEPT !.seen = "missing"],
                                "Failed to verify downloaded file"), SystemErrorMessage)
  ELSE IF files[q.outputPath].size = 0
    THEN RespondDetails(Caption([q EXCEPT !.seen = "empty"],
                                "Failed to verify downloaded file"), EmptyFileMessage)
  ELSE [q EXCEPT !.seen = "ok", !.pc = "read"]

Stat(r) ==
  /\ Alive /\ rev = RevBase64
  /\ rq[r].pc = "stat"
  /\ Set(r, StatBase64(rq[r]))
  /\ UNCHANGED <<rev, server, init, isServerReady, now, sigterm, exitCode, files, hl, lastCheck>>

\* part_002: fs.readFile and the base64 encoding; when either fails the
\* handler answers 500 'Failed to process downloaded video'.
ReadBase64(q, ioOk) ==
  IF Exists(q.outputPath) /\ ioOk
    THEN [q EXCEPT !.bodyOwner = files[q.outputPath].owner, !.pc = "unlink"]
    ELSE RespondDetails(Caption(q, "Failed to process downloaded video"),
                        SystemErrorMessage)

ReadFile(r, ioOk) ==
  /\ Alive /\ rev = RevBase64
  /\ rq[r].pc = "read"
  /\ Set(r, ReadBase64(rq[r], ioOk))
  /\ UNCHANGED <<rev, server, init, isServerReady, now, sigterm, exitCode, files, hl, lastCheck>>

\* UnlinkBase64 without the .catch on fs.unlink: a failed unlink throws into
\* the readError catch, which answers 500.
UnlinkBase64Throwing(q, ok) ==
  IF Exists(q.outputPath) /\ ~ok
    THEN RespondDetails(Caption(Unlinked(q, ok), "Failed to process downloaded video"),
                        SystemErrorMessage)
    ELSE [Respond(Unlinked(q, ok), 200) EXCEPT !.body = "datauri", !.text = SuccessMessage]

\* part_002: fs.unlink (its error is logged by the .catch), then
\* res.json({videoUrl: data URI, message}).
UnlinkBase64(q, ok) ==
  [Respond(Unlinked(q, ok), 200) EXCEPT !.body = "datauri", !.text = SuccessMessage]

UnlinkRespond(r, ok) ==
  /\ Alive /\ rev = RevBase64
  /\ rq[r].pc = "unlink"
  /\ Set(r, UnlinkBase64(rq[r], ok))
  /\ files' = FilesAfterUnlink(rq[r].outputPath, ok)
  /\ UNCHANGED <<rev, server, init, isServerReady, now, sigterm, exitCode, hl, lastCheck>>

\* ------------------------------------------------------------- streaming
\* readStream 'end': pipe has handed over the whole file and ends the
\* response.  index.js then issues fs.unlink; part_001 calls cleanup() and
\* removes the request's termination listeners.
StreamEnded(q) ==
  [q EXCEPT !.body = "video", !.bodyOwner = files[q.outputPath].owner,
            !.sent = files[q.outputPath].size, !.ended = TRUE]

EndIndex(q) == [StreamEnded(q) EXCEPT !.pc = "unlinking"]

EndCleanup(q, ok) ==
  [Cleanup(StreamEnded(q), ok) EXCEPT !.pc = "done", !.handlers = FALSE]

StreamEnd(r, ok) ==
  /\ Alive /\ rev \in {RevIndex, RevCleanup}
  /\ rq[r].pc = "stream" /\ Exists(rq[r].outputPath)
  /\ IF rev = RevIndex
       THEN Set(r, EndIndex(rq[r])) /\ UNCHANGED files
       ELSE Set(r, EndCleanup(rq[r], ok)) /\ files' = CleanupFiles(rq[r], ok)
  /\ UNCHANGED <<rev, server, init, isServerReady, now, sigterm, exitCode, hl, lastCheck>>

\* index.js: the callback of the fs.unlink issued on 'end'.
UnlinkDone(r, ok) ==
  /\ Alive /\ rev = RevIndex
  /\ rq[r].pc = "unlinking"
  /\ Set(r, [Unlinked(rq[r], ok) EXCEPT !.pc = "done"])
  /\ files' = FilesAfterUnlink(rq[r].outputPath, ok)
  /\ UNCHANGED <<rev, server, init, isServerReady, now, sigterm, exitCode, hl, lastCheck>>

\* readStream 'error': 500 only if no headers were sent (they were); part_001
\* also calls cleanup().  Nothing ends the response.
ErrorIndex(q) == RespondError(q)

ErrorCleanup(q, ok) == Cleanup(RespondError(q), ok)

StreamError(r, ok) ==
  /\ Alive /\ rev \in {RevIndex, RevCleanup}
  /\ rq[r].pc = "stream"
  /\ IF rev = RevIndex
       THEN Set(r, ErrorIndex(rq[r])) /\ UNCHANGED files
       ELSE Set(r, ErrorCleanup(rq[r], ok)) /\ files' = CleanupFiles(rq[r], ok)
  /\ UNCHANGED <<rev, server, init, isServerReady, now, sigterm, exitCode, hl, lastCheck>>

\* The client closes the connection while the file is being piped.  pipe()
\* answers the destination's 'close' by unpiping: the read stream stops
\* flowing and emits neither 'end' nor 'error'; the handler registered no
\* 'close' listener on req or res, so nothing of the request runs again.
ClientClose(r) ==
  /\ Alive /\ rev \in {RevIndex, RevCleanup}
  /\ rq[r].pc = "stream"
  /\ Set(r, [rq[r] EXCEPT !.pc = "done", !.closed = TRUE])
  /\ UNCHANGED <<rev, server, init, isServerReady, now, sigterm, exitCode, files, hl,
                 lastCheck>>

\* --------------------------------------------------------------- SIGTERM
\* The requests whose handleTermination listeners are registered (part_001).
Registered == {r \in Req : rq[r].handlers}

\* The requests whose cleanup() would call unlinkSync now.
WouldUnlink == {r \in Registered : ~rq[r].cleanupDone /\ Exists(rq[r].outputPath)}

\* part_001 with listeners registered: emit calls every handleTermination in
\* turn, each runs cleanup() up to its await, then process.exit(0).
\* failing: the requests whose unlinkSync throws.
TerminateCleanup(failing) ==
  /\ rq' = [r \in Req |->
              IF r \in Registered THEN Cleanup(rq[r], r \notin failing) ELSE rq[r]]
  /\ files' = [p \in Paths |->
                 IF \E r \in WouldUnlink \ failing : rq[r].outputPath = p
                   THEN NoFile ELSE files[p]]
  /\ Exit(0)

\* The module-level listener of index.js and part_001: server.close(...)
\* stops accepting and exits once every connection has ended.
TerminateClose ==
  /\ server' = "closing"
  /\ UNCHANGED <<exitCode, files, rq>>

\* part_002 registers no listener: the signal ends the process at once.
TerminateDefault ==
  /\ Exit(NullCode)
  /\ UNCHANGED <<files, rq>>

Sigterm(failing) ==
  /\ Alive /\ ~sigterm
  /\ sigterm' = TRUE
  /\ failing \subseteq WouldUnlink
  /\ CASE rev = RevBase64 -> TerminateDefault
       [] rev = RevCleanup /\ Registered # {} -> TerminateCleanup(failing)
       [] OTHER -> TerminateClose
  /\ UNCHANGED <<rev, init, isServerReady, now, hl, lastCheck>>

\* The callback of server.close: every connection has ended; process.exit(0).
ServerClosed ==
  /\ server = "closing"
  /\ \A r \in Req : rq[r].pc = "idle" \/ rq[r].ended \/ rq[r].closed
  /\ \A h \in Health : hl[h].pc = "idle" \/ hl[h].ended
  /\ Exit(0)
  /\ UNCHANGED <<rev, init, isServerReady, now, sigterm, files, rq, hl, lastCheck>>

\* ------------------------------------------------------------ GET /health
\* checkYtDlp of index.js and part_001: `which yt-dlp`, then `yt-dlp
\* --version`; the promise rejects when either fails.
CheckYtDlpIndex(which, version) == which /\ version

\* res.json(...) / res.status(st).json(...) of the health handler.
HealthRespond(g, st) == [g EXCEPT !.pc = "done", !.status = st, !.ended = TRUE]

\* index.js and part_001: try { await checkYtDlp(); 200 } catch { 500 }.
HealthIndex(g, ok) ==
  HealthRespond([g EXCEPT !.tool = IF ok THEN "ok" ELSE "failed"],
                IF ok THEN 200 ELSE 500)

\* part_002: checkYtDlp() returns false and the report is sent with
\* installed: false, or returns true and the handler goes on to await
\* `which yt-dlp` and `yt-dlp --version` for the report.
HealthBase64(g, ok) ==
  IF ok THEN [g EXCEPT !.tool = "ok", !.pc = "report"]
  ELSE HealthRespond([g EXCEPT !.tool = "failed"], 200)

HealthReceive(h) ==
  /\ server = "listening"
  /\ hl[h].pc = "idle"
  /\ \A o \in Health : o < h => hl[o].pc # "idle"
  /\ hl' = [hl EXCEPT ![h].pc = "check"]
  /\ UNCHANGED <<rev, server, init, isServerReady, now, sigterm, exitCode, files, rq, lastCheck>>

\* The handler's checkYtDlp() settles.
HealthCheck(h, which, executes, version, help) ==
  /\ Alive
  /\ hl[h].pc = "check"
  /\ hl' = [hl EXCEPT ![h] =
              IF rev = RevBase64
                THEN HealthBase64(@, CheckYtDlp(which, executes, version, help))
                ELSE HealthIndex(@, CheckYtDlpIndex(which, version))]
  /\ UNCHANGED <<rev, server, init, isServerReady, now, sigterm, exitCode, files, rq, lastCheck>>

\* part_002: the two execAsync calls inside the res.json argument settle.
\* They are awaited outside any try block: when one rejects, the async
\* handler's promise rejects with nobody handling it, no response is sent,
\* and the unhandled rejection ends the process (node 18) with code 1.
HealthReport(h, whichOk, versionOk) ==
  /\ Alive /\ rev = RevBase64
  /\ hl[h].pc = "report"
  /\ IF whichOk /\ versionOk
       THEN /\ hl' = [hl EXCEPT ![h] = HealthRespond(@, 200)]
            /\ UNCHANGED <<server, exitCode>>
       ELSE /\ hl' = [hl EXCEPT ![h].pc = "done", ![h].unhandled = TRUE]
            /\ Exit(1)
  /\ UNCHANGED <<rev, init, isServerReady, now, sigterm, files, rq, lastCheck>>

\* ------------------------------------------------------------ specification
Next ==
  \/ \E a, b, c, d \in BOOLEAN : InitCheck(a, b, c, d)
  \/ \E ok \in BOOLEAN : PipInstall(ok)
  \/ \E a, b \in BOOLEAN : CurlInstall(a, b)
  \/ \E a, b, c, d \in BOOLEAN : VerifyInstall(a, b, c, d)
  \/ \E ok \in BOOLEAN : Listen(ok)
  \/ Tick
  \/ \E r \in Req, u \in Urls : Receive(r, u)
  \/ \E r \in Req, ok \in BOOLEAN : ProbeDone(r, ok)
  \/ \E r \in Req, ok \in BOOLEAN : VersionCheck(r, ok)
  \/ \E r \in Req, ok \in BOOLEAN : ToolCheck(r, ok)
  \/ \E r \in Req, s \in FileSizes : DlWrite(r, s)
  \/ \E r \in Req, c \in ExitCodes, ok \in BOOLEAN : DlExit(r, c, ok)
  \/ \E r \in Req, ok \in BOOLEAN : DlError(r, ok)
  \/ \E r \in Req, c \in ExitCodes, ok \in BOOLEAN : DlLateExit(r, c, ok)
  \/ \E r \in Req : Stat(r)
  \/ \E r \in Req, ok \in BOOLEAN : ReadFile(r, ok)
  \/ \E r \in Req, ok \in BOOLEAN : UnlinkRespond(r, ok)
  \/ \E r \in Req, ok \in BOOLEAN : StreamEnd(r, ok)
  \/ \E r \in Req, ok \in BOOLEAN : UnlinkDone(r, ok)
  \/ \E r \in Req, ok \in BOOLEAN : StreamError(r, ok)
  \/ \E r \in Req : ClientClose(r)
  \/ \E failing \in SUBSET Req : Sigterm(failing)
  \/ ServerClosed

Spec == Init /\ [][Next]_vars

\* The server with its health endpoint: start-up, GET /health requests,
\* SIGTERM.
NextHealth ==
  \/ \E a, b, c, d \in BOOLEAN : InitCheck(a, b, c, d)
  \/ \E ok \in BOOLEAN : PipInstall(ok)
  \/ \E a, b \in BOOLEAN : CurlInstall(a, b)
  \/ \E a, b, c, d \in BOOLEAN : VerifyInstall(a, b, c, d)
  \/ \E ok \in BOOLEAN : Listen(ok)
  \/ \E h \in Health : HealthReceive(h)
  \/ \E h \in Health, a, b, c, d \in BOOLEAN : HealthCheck(h, a, b, c, d)
  \/ \E h \in Health, a, b \in BOOLEAN : HealthReport(h, a, b)
  \/ Sigterm({})
  \/ ServerClosed

SpecHealth == Init /\ [][NextHealth]_vars

\* ------------------------------------------------------------ vocabulary
\* The handler of request r has finished (responded, or has nothing left to
\* run).
Done(r) == rq[r].pc = "done"

\* An output path was chosen for request r.
PathChosen(r) == rq[r].outputPath # NoPath

\* The file at r's output path is on disk.
ArtifactOnDisk(r) == Exists(rq[r].outputPath)

\* No unlink call of any request has failed so far.
NoUnlinkFailed == \A r \in Req : ~rq[r].delFailed

\* r's downloader exited with a non-zero (or null) code.
ExitedNonZero(r) == rq[r].job = "exited" /\ \E c \in rq[r].exit : c # 0

\* r's downloader exited with code 0.
ExitedZero(r) == rq[r].job = "exited" /\ rq[r].exit = {0}

\* ------------------------------------------------------------------ C1
\* C1: in every revision, once an output path was chosen, by the time the
\* request is finished the deletion of its artifact has been attempted
\* exactly once, on every path through the handler.
C1_DeletionAttemptedExactlyOnce ==
  \A r \in Req : Done(r) /\ PathChosen(r) => rq[r].delAttempts = 1

\* ------------------------------------------------------------------ C2
\* C2: when the downloader exited with a non-zero code, then once the request
\* is finished no artifact of it is on disk, the status is 500, and neither
\* 200 headers nor file bytes were sent.  Stated for the runs in which no
\* unlink call fails, so that a violation is the handler's doing and not the
\* file system's.
C2_FailedDownloadLeavesNothing ==
  \A r \in Req :
    Done(r) /\ ExitedNonZero(r) /\ NoUnlinkFailed =>
      /\ ~ArtifactOnDisk(r)
      /\ rq[r].status = 500
      /\ rq[r].bodyOwner = 0

\* ------------------------------------------------------------------ C3
\* Request r was answered successfully: a 200 whose body is the streamed file
\* or the data URI, ended.
AnsweredWithVideo(r) ==
  Done(r) /\ rq[r].status = 200 /\ rq[r].ended /\ rq[r].body \in {"video", "datauri"}

\* No handler is between its arrival and its end.
Quiescent == \A r \in Req : rq[r].pc \in {"idle", "done"}

\* C3: the artifact of a successfully answered request is eventually gone.
\* Stated on the final result: when no handler is running any more (nothing
\* further will touch the temp directory) and no unlink call failed, the file
\* at the path of every successfully answered request is absent.
C3_SuccessLeavesNothing ==
  \A r \in Req :
    AnsweredWithVideo(r) /\ Quiescent /\ NoUnlinkFailed => ~ArtifactOnDisk(r)

\* ------------------------------------------------------------------ C4
\* C4: any two requests that chose an output path chose different paths.
C4_PathsNeverCollide ==
  \A r1, r2 \in Req :
    r1 # r2 /\ PathChosen(r1) /\ PathChosen(r2) => rq[r1].outputPath # rq[r2].outputPath

\* ------------------------------------------------------------------ C5
\* C5: under every interleaving a request delivers only bytes written by its
\* own downloader job and deletes only a file written by its own job.
C5_OnlyOwnArtifact ==
  \A r \in Req : rq[r].bodyOwner \in {0, r} /\ rq[r].delOwner \in {0, r}

\* ------------------------------------------------------------------ C6
\* The request has arrived.
Received(r) == rq[r].pc # "idle"

\* C6: a request whose url is missing or empty is answered 400 and no external
\* process is spawned for it.
C6_MissingUrlIs400 ==
  \A r \in Req :
    Received(r) /\ rq[r].url = NoUrl =>
      Done(r) /\ rq[r].status = 400 /\ rq[r].spawned = {}

\* Some request without url has been answered.
C6_Witness == \E r \in Req : Received(r) /\ rq[r].url = NoUrl /\ rq[r].ended

\* ------------------------------------------------------------------ C7
\* C7: exit code 0 with a zero-byte file at the path: the finished request has
\* status 500 and the file is gone (in the runs where no unlink call fails).
C7_EmptyArtifactIs500 ==
  \A r \in Req :
    Done(r) /\ ExitedZero(r) /\ rq[r].seen = "empty" /\ NoUnlinkFailed =>
      rq[r].status = 500 /\ ~ArtifactOnDisk(r)

\* ------------------------------------------------------------------ C8
\* The stages in which the artifact is being delivered.
DeliveryStages == {"stream", "unlinking", "read", "unlink"}

\* C8: exit code 0 with no file at the path: delivery never starts (no 200
\* headers, no read of the path) and the finished request has status 500.
C8_MissingArtifactIs500 ==
  \A r \in Req :
    ExitedZero(r) /\ rq[r].seen = "missing" =>
      /\ rq[r].pc \notin DeliveryStages
      /\ rq[r].status # 200 /\ rq[r].bodyOwner = 0
      /\ Done(r) => rq[r].status = 500

\* Some request whose downloader exited 0 without a file has finished.
C8_Witness ==
  \E r \in Req : ExitedZero(r) /\ rq[r].seen = "missing" /\ Done(r)

\* ------------------------------------------------------------------ C9
\* The handler of r was running when the process exited.
InFlight(r) == rq[r].pc \notin {"idle", "done"}

\* C9: when the process has exited after a SIGTERM, the artifact of every
\* request that was in flight is gone (in the runs where no unlink call
\* fails).
C9_SigtermDeletesArtifacts ==
  server = "exited" /\ sigterm /\ NoUnlinkFailed =>
    \A r \in Req : InFlight(r) /\ PathChosen(r) => ~ArtifactOnDisk(r)

\* ------------------------------------------------------------------ C10
\* Delivery of r's artifact has started: the streaming revisions wrote the 200
\* headers and opened the read stream, part_002 went on to fs.readFile.
DeliveryStarted(r) ==
  IF rev = RevBase64 THEN rq[r].seen = "ok" ELSE rq[r].seen \in {"ok", "empty"}

\* C10: once delivery has started the artifact is deleted on every outcome of
\* it: stream end, read completion, and a read or stream error (in the runs
\* where no unlink call fails).
C10_DeliveryAlwaysDeletes ==
  \A r \in Req :
    Done(r) /\ DeliveryStarted(r) /\ NoUnlinkFailed => ~ArtifactOnDisk(r)

\* ------------------------------------------------------------------ C11
\* The text m embeds what a child process wrote to its stderr.
EmbedsProcessOutput(m) == \E i \in DOMAIN m : m[i] = Stderr

\* C11: no response body of POST /download contains text from the stderr of
\* the downloader or of the probe: the body of an error response carries only
\* fixed texts or the message of an error that embeds no process output.
C11_NoProcessOutputInBody ==
  \A r \in Req : ~EmbedsProcessOutput(rq[r].text)

\* ------------------------------------------------------------------ C12
\* r is part_002's version-check request, which involves no download.
VersionRequest(r) == rev = RevBase64 /\ rq[r].url = VersionUrl

\* The handler of r has finished without a completed 200 answer.
Failed(r) == Done(r) /\ ~(rq[r].status = 200 /\ rq[r].ended)

\* The download was spawned only after the url was validated and the check
\* before it (the probe, or part_002's per-request tool check) succeeded.
SpawnedInOrder(r) ==
  "download" \in rq[r].spawned =>
    /\ rq[r].url # NoUrl
    /\ IF rev = RevBase64 THEN "toolcheck" \in rq[r].spawned ELSE rq[r].probe = "ok"

\* 200 headers were written only after exit code 0 and a verified artifact.
HeadersInOrder(r) ==
  rq[r].status = 200 /\ ~VersionRequest(r) =>
    ExitedZero(r) /\ rq[r].seen \in {"ok", "empty"}

\* A request that failed after its path was chosen has run the deletion.
FailureDeletes(r) == Failed(r) /\ PathChosen(r) => rq[r].delAttempts >= 1

\* C12: the stages of a request happen in the order validate, (probe), spawn,
\* exit observed, verify, deliver, delete: the download is spawned only after
\* validation and a successful probe, the 200 headers are written only after
\* exit code 0 and a verified artifact, and the deletion also happens when the
\* request fails at any stage after the output path was chosen.
C12_StagesInOrder ==
  \A r \in Req : SpawnedInOrder(r) /\ HeadersInOrder(r) /\ FailureDeletes(r)

\* ------------------------------------------------------------------ C13
\* The health handler of request h has finished.
HealthDone(h) == hl[h].pc = "done"

\* C13: every error raised while a request is handled is caught inside the
\* handler and turned into a JSON error response with status 400, 500 or 503;
\* none leaves the handler as an unhandled rejection.  For /health: a
\* finished handler has answered 200 or 500 and nothing escaped it.  For
\* /download: a failed request was answered with a JSON error.
C13_ErrorsBecomeResponses ==
  /\ \A h \in Health :
       HealthDone(h) =>
         ~hl[h].unhandled /\ hl[h].ended /\ hl[h].status \in {200, 500}
  /\ \A r \in Req :
       Failed(r) =>
         rq[r].ended /\ rq[r].body = "json" /\ rq[r].status \in {400, 500, 503}

\* ------------------------------------------------------------------ C14
\* r's read stream is open: the 200 headers are out and pipe is at work.
Streaming(r) == server # "exited" /\ rq[r].pc = "stream"

\* C14: in the streaming revisions the Content-Length header equals the size
\* of the artifact while the read stream is open, and the number of body
\* bytes a finished stream has handed over equals the announced length.
C14_ContentLengthIsFileSize ==
  \A r \in Req :
    /\ Streaming(r) =>
         Exists(rq[r].outputPath)
           /\ rq[r].contentLength = files[rq[r].outputPath].size
    /\ rq[r].body = "video" => rq[r].sent = rq[r].contentLength

\* A non-empty file has been streamed to its end.
C14_Witness ==
  \E r \in Req :
    rq[r].body = "video" /\ rq[r].contentLength > 0
      /\ rq[r].sent = rq[r].contentLength

\* ------------------------------------------------------------------ C15
\* The server accepts, or has accepted, connections.
Accepting ==
  \/ Alive
  \/ \E r \in Req : Received(r)
  \/ \E h \in Health : hl[h].pc # "idle"

\* The start-up tool check has succeeded (part_002 sets its flag then; the
\* other revisions run no start-up check).
StartupCheckPassed == isServerReady

\* The start-up found the tool neither installed nor installable.
StartupFailed == init = "failed"

\* C15 as stated: in every revision the server accepts connections only after
\* the start-up tool check succeeded, and a failed start-up ends the process
\* with code 1 before any connection.
C15_ListenOnlyAfterCheck ==
  /\ Accepting => StartupCheckPassed
  /\ StartupFailed => server = "exited" /\ exitCode = {1} /\ ~Accepting

\* C15, amended: part_002 accepts connections only after its start-up tool
\* check succeeded, and when the tool can be neither found nor installed the
\* process exits with code 1 without ever accepting a connection.  (index.js
\* and part_001 run no start-up check and listen at module load.)
C15_Base64ListenOnlyAfterCheck ==
  rev = RevBase64 =>
    /\ Accepting => StartupCheckPassed /\ init = "ready"
    /\ StartupFailed => server = "exited" /\ exitCode = {1} /\ ~Accepting

\* part_002's start-up failed and the process has exited with code 1.
C15_Witness ==
  rev = RevBase64 /\ StartupFailed /\ server = "exited" /\ exitCode = {1}

\* ------------------------------------------------------------------ C17
\* r's pre-flight probe exited non-zero.
ProbeFailed(r) == rq[r].probe = "failed"

\* C17: when the probe exits non-zero the request is answered 500 with the
\* fixed message 'Invalid or inaccessible video URL', no output path is
\* chosen and the download is never spawned.
C17_ProbeFailureIs500 ==
  \A r \in Req :
    ProbeFailed(r) =>
      /\ Done(r) /\ rq[r].status = 500 /\ rq[r].body = "json"
      /\ rq[r].text = ProbeErrorMessage
      /\ ~PathChosen(r)
      /\ "download" \notin rq[r].spawned /\ rq[r].job = "none"

\* A probe has failed and its request was answered.
C17_Witness ==
  \E r \in Req : ProbeFailed(r) /\ rq[r].status = 500 /\ rq[r].ended

\* ------------------------------------------------------------------ C18
\* C18: GET /health answers 500 whenever its tool check fails and 200 with the
\* readiness report otherwise, and in every revision a health request always
\* receives a response.
C18_HealthReportsToolCheck ==
  \A h \in Health :
    HealthDone(h) =>
      /\ hl[h].ended
      /\ hl[h].tool = "failed" => hl[h].status = 500
      /\ hl[h].tool = "ok" => hl[h].status = 200

\* ------------------------------------------------------------------ C19
\* An unlink call of request r has failed.
DeletionFailed(r) == rq[r].delFailed

\* C19: a failure to delete the artifact is logged only and never changes the
\* outcome of the request: a delivery still yields its success response, a
\* failed request still yields its 500, and the handler finishes.
C19_DeletionFailureKeepsOutcome ==
  \A r \in Req :
    DeletionFailed(r) /\ Done(r) =>
      IF DeliveryStarted(r)
        THEN rq[r].status = 200 /\ rq[r].body # "json"
        ELSE rq[r].status = 500 /\ rq[r].body = "json" /\ rq[r].ended

\* Both outcomes have met a failed deletion: a delivered request and a failed
\* one.
C19_Witness ==
  /\ \E r \in Req :
       DeletionFailed(r) /\ Done(r) /\ rq[r].status = 200 /\ rq[r].ended
  /\ \E r \in Req : DeletionFailed(r) /\ Done(r) /\ rq[r].status = 500

\* ------------------------------------------------------------------ C20
\* r's download was answered with a completed 200 response.
Succeeded(r) ==
  "download" \in rq[r].spawned /\ rq[r].status = 200 /\ rq[r].ended

\* C20: a successful POST /download is answered with JSON whose videoUrl is
\* the data URI of the whole artifact and whose message is 'Video downloaded
\* successfully', as the README documents.
C20_SuccessIsDataUri ==
  \A r \in Req :
    Succeeded(r) =>
      /\ rq[r].body = "datauri" /\ rq[r].text = SuccessMessage
      /\ rq[r].bodyOwner # 0

\* ------------------------------------------------------------------ C21
\* r's downloader emitted both 'error' and 'exit'.
BothEvents(r) == rq[r].job = "errored" /\ rq[r].exit # {}

\* r's download step failed: a spawn error, or an exit with a code other
\* than 0.
DownloadFailed(r) == rq[r].job = "errored" \/ ExitedNonZero(r)

\* C21: the download step counts as successful only when the 'exit' event
\* carries code exactly 0; any other code, a null code or a spawn 'error'
\* makes the request fail; and when both 'error' and 'exit' fire for one
\* process the request fails or succeeds exactly once.
C21_ExitCodeDecidesOnce ==
  \A r \in Req :
    /\ rq[r].settled <= 1
    /\ rq[r].seen # "none" \/ rq[r].pc \in DeliveryStages \/ rq[r].status = 200
         => VersionRequest(r) \/ ExitedZero(r)
    /\ DownloadFailed(r) =>
         /\ Done(r) /\ rq[r].status = 500 /\ rq[r].settled = 1
         /\ rq[r].seen = "none" /\ rq[r].bodyOwner = 0

\* A spawn error failed the request and the 'exit' event, carrying code 0,
\* came after it.
C21_Witness ==
  \E r \in Req : BothEvents(r) /\ rq[r].exit = {0} /\ rq[r].status = 500

\* ------------------------------------------------------------------ C22
\* r's per-request `yt-dlp --version` check failed.
ToolCheckFailed(r) == rq[r].check = "failed"

\* C22: in part_002, when the per-request `yt-dlp --version` check fails the
\* request is answered 500 'yt-dlp is not working properly', no output path
\* is computed and no download process is spawned.
C22_ToolCheckFailureIs500 ==
  \A r \in Req :
    ToolCheckFailed(r) =>
      /\ Done(r) /\ rq[r].status = 500 /\ rq[r].body = "json"
      /\ rq[r].caption = "yt-dlp is not working properly"
      /\ ~PathChosen(r)
      /\ "download" \notin rq[r].spawned /\ rq[r].job = "none"

\* A per-request tool check has failed and its request was answered.
C22_Witness ==
  \E r \in Req : ToolCheckFailed(r) /\ rq[r].status = 500 /\ rq[r].ended

\* ------------------------------------------------------------------ C23
\* The steps of initializeServer follow one another in the order of its code.
InitStepsInOrder ==
  /\ init' = "pip" /\ init # "pip" => init = "check1"
  /\ init' = "curl" /\ init # "curl" => init = "pip"
  /\ init' = "check2" /\ init # "check2" => init \in {"pip", "curl"}
  /\ init \in {"pip", "curl"} /\ init' # init => init' \in {"curl", "check2", "failed"}
  /\ isServerReady' /\ ~isServerReady => init \in {"check1", "check2"}

\* What the latest check said, at each position of initializeServer.
InitFollowsCheck ==
  rev = RevBase64 =>
    /\ init \in {"pip", "curl", "check2"} => lastCheck = "false" /\ ~isServerReady
    /\ isServerReady => lastCheck = "true" /\ init = "ready"
    /\ init = "failed" => lastCheck = "false" /\ ~isServerReady

\* C23: during start-up an installation is attempted only when the first tool
\* check failed, curl only after pip failed, the tool check is run again after
\* any installation attempt, and the readiness flag becomes true only if the
\* last tool check before it returned true; otherwise initialization throws
\* and the flag stays false.
C23_InstallOnlyAfterFailedCheck ==
  []InitFollowsCheck /\ [][InitStepsInOrder]_vars

\* An installation was attempted after a failed first check and the check is
\* about to be run again.
C23_Witness ==
  rev = RevBase64 /\ init = "check2" /\ lastCheck = "false" /\ ~isServerReady

\* ------------------------------------------------------------------ C24
\* C24: every POST /download request receives a completed response (headers
\* written and body ended), also when the read stream fails after the 200
\* headers.  Stated on finished handlers: once no continuation or listener of
\* the request is left to run, its response has ended, unless the client
\* closed the connection first.
C24_FinishedMeansAnswered ==
  \A r \in Req : Done(r) /\ ~rq[r].closed => rq[r].headersSent /\ rq[r].ended

\* ------------------------------------------------------------------ C25
\* C25: no POST /download request has its response headers written twice: on
\* every path, a stream error after the 200 headers included, at most one of
\* the 200, 400, 500 and 503 responses is started.
C25_HeadersWrittenOnce ==
  \A r \in Req :
    /\ rq[r].headerWrites <= 1
    /\ rq[r].headersSent <=> rq[r].headerWrites = 1

\* A read stream failed after the 200 headers and the handler has finished.
C25_Witness ==
  \E r \in Req :
    Done(r) /\ rq[r].status = 200 /\ ~rq[r].ended /\ rq[r].headerWrites = 1

\* ------------------------------------------------------------------ C26
\* C26: in part_001 the termination listeners a request registered are removed
\* when the request reaches any terminal state (400, 500, stream error, stream
\* end), so while the process runs the registered per-request listeners are
\* exactly those of the requests in flight.
C26_ListenersMatchInFlight ==
  rev = RevCleanup /\ server # "exited" =>
    /\ \A r \in Req : Done(r) => ~rq[r].handlers
    /\ Cardinality(Registered) = Cardinality({r \in Req : InFlight(r)})

\* ------------------------------------------------------------------ C27
\* While part_002 accepts connections its flag is true, and every request it
\* has handled read the flag as true.
ReadyWhileServing ==
  rev = RevBase64 =>
    /\ Accepting => isServerReady
    /\ \A r \in Req : Received(r) => rq[r].observed = "true" /\ rq[r].status # 503

\* The flag is never reset.
ReadyNeverReset == isServerReady => isServerReady'

\* C27: part_002 starts listening only after initialization has set
\* isServerReady to true and the flag is never reset afterwards, so every
\* request that is handled observes isServerReady = true.
C27_HandledRequestsSeeReady ==
  []ReadyWhileServing /\ [][ReadyNeverReset]_vars

\* A request of part_002 has been handled to its end with the flag read as
\* true.
C27_Witness ==
  \E r \in Req : rev = RevBase64 /\ Done(r) /\ rq[r].observed = "true"

\* ------------------------------------------------------------------ C28
\* The client closed r's connection while the file was being streamed.
ClientClosed(r) == rq[r].closed

\* C28: in the streaming revisions, when the client connection closes after
\* the 200 headers but before the whole file was read, the artifact is still
\* deleted.  Stated on finished handlers (nothing of the request is left to
\* run) and for the runs in which no unlink call fails.
C28_ClientCloseDeletes ==
  \A r \in Req :
    ClientClosed(r) /\ Done(r) /\ NoUnlinkFailed => ~ArtifactOnDisk(r)

====
